---- MODULE Spec2Model ----
(***************************************************************************)
(* Model of the imaging-report service: the three POST handlers of app.py, *)
(* the health check, the deferred temp-file cleanup, the two lazily        *)
(* created singleton clients, the extraction functions of md_to_json.py    *)
(* and the pydantic schemas of ct_models.py / mammo_models.py.             *)
(*                                                                         *)
(* The handlers are coroutines on one event loop: a handler gives up the   *)
(* loop only at `await file.read()` and when it ends; the blocking calls   *)
(* (conversion, LLM) keep the loop.  `loop` names the request that holds   *)
(* it.  External collaborators (filesystem, pdf_to_markdown_text, the      *)
(* client constructors, the LLM call) are nondeterministic inputs.         *)
(***************************************************************************)
EXTENDS Integers, Sequences, FiniteSets, TLC

\* ------------------------------------------------------------------ bounds
NumRequests == 2

Requests == 1..NumRequests

\* ------------------------------------------------------------ report kinds
Kinds == {"ctscan", "petct", "mammogram"}

\* --------------------------------------------------------------- filenames
\* A filename is a sequence of characters; <<>> stands for a missing or empty
\* filename (both are falsy for `not file.filename`).
NoFilename == <<>>

Filenames ==
    { NoFilename,
      <<"a", ".", "p", "d", "f">>,
      <<"a", ".", "P", "D", "F">>,
      <<"a", ".", "P", "d", "f">>,
      <<"a", ".", "t", "x", "t">>,
      <<"p", "d", "f">> }

\* str.lower() on one character (the characters the filenames use)
LowerChar(c) ==
    CASE c = "P" -> "p"
      [] c = "D" -> "d"
      [] c = "F" -> "f"
      [] OTHER   -> c

Lower(s) == [i \in 1..Len(s) |-> LowerChar(s[i])]

EndsWith(s, suffix) ==
    /\ Len(s) >= Len(suffix)
    /\ SubSeq(s, Len(s) - Len(suffix) + 1, Len(s)) = suffix

DotPdf == <<".", "p", "d", "f">>

\* the suffix test without lower(): case-sensitive
BadFilename_CaseSensitive(filename) ==
    \/ filename = NoFilename
    \/ ~EndsWith(filename, DotPdf)

\* app.py: `not file.filename or not file.filename.lower().endswith('.pdf')`
BadFilename(filename) ==
    \/ filename = NoFilename
    \/ ~EndsWith(Lower(filename), DotPdf)

\* ---------------------------------------------------------- markdown text
Whitespace == {" ", "\n", "\t"}

RECURSIVE LStrip(_)
LStrip(s) ==
    IF s # <<>> /\ Head(s) \in Whitespace THEN LStrip(Tail(s)) ELSE s

RECURSIVE RStrip(_)
RStrip(s) ==
    IF s # <<>> /\ s[Len(s)] \in Whitespace
    THEN RStrip(SubSeq(s, 1, Len(s) - 1))
    ELSE s

\* the text as it is, not stripped
Strip_Missing(s) == s

\* str.strip()
Strip(s) == RStrip(LStrip(s))

\* the texts pdf_to_markdown_text can hand back
MarkdownTexts ==
    { <<>>,
      <<" ", "\n">>,
      <<" ", "x", "\n">> }

\* ------------------------------------------------------------- JSON values
\* A JSON value as json.loads builds it: t is the Python type, s the scalar
\* payload, m the entries of a dict as a set of [k, t, s] records (one per
\* key).  A list-valued entry carries s = "[]", the empty list.
Entry(k, t, s) == [k |-> k, t |-> t, s |-> s]

Scalar(t, s) == [t |-> t, s |-> s, m |-> {}]

Dict(m) == [t |-> "dict", s |-> "", m |-> m]

EmptyDict == Dict({})

PyNone == Scalar("NoneType", "None")

Keys(m) == {e.k : e \in m}

Get(m, k) == CHOOSE e \in m : e.k = k

\* no emptiness test at all
Truthy_Always(v) == TRUE

\* `is not None` in place of truthiness
Truthy_IsNotNone(v) == v.t # "NoneType"

\* Python truthiness, as `if not structured_data` / `if response_content` use it
Truthy(v) ==
    CASE v.t = "dict"     -> v.m # {}
      [] v.t = "list"     -> v.s # "[]"
      [] v.t = "NoneType" -> FALSE
      [] v.t = "bool"     -> v.s = "True"
      [] v.t = "int"      -> v.s # "0"
      [] v.t = "str"      -> v.s # ""
      [] OTHER            -> TRUE

\* ------------------------------------------------------------------ schemas
\* One record per field of the pydantic model: its name, its declared type
\* and whether it is required (`Field(...)`) or Optional with default None.
Fld(name, type, required) == [name |-> name, type |-> type, required |-> required]

CTScanReport ==
    { Fld("patient_name", "str", TRUE),
      Fld("test_type", "str", TRUE),
      Fld("date_of_test", "date", TRUE),
      Fld("imaging_site", "str", TRUE),
      Fld("contrast_enhanced", "bool", TRUE),
      Fld("new_lesion_evidence", "bool", TRUE),
      Fld("lesions", "list", TRUE),
      Fld("lymph_nodes_detected", "int", FALSE),
      Fld("impression", "str", TRUE),
      Fld("imaging_comments", "str", FALSE),
      Fld("hospital_name", "str", FALSE),
      Fld("hospital_location", "str", FALSE) }

PETCTReport ==
    { Fld("patient_name", "str", TRUE),
      Fld("date_of_test", "date", TRUE),
      Fld("test_type", "str", TRUE),
      Fld("organ_systems", "list", TRUE),
      Fld("other_abnormalities", "str", FALSE),
      Fld("impression", "str", TRUE),
      Fld("hospital_lab_name", "str", TRUE),
      Fld("hospital_lab_id", "str", TRUE) }

MammogramReport ==
    { Fld("patient_name", "str", TRUE),
      Fld("test_type", "str", TRUE),
      Fld("date_of_test", "date", TRUE),
      Fld("reason_for_test", "str", TRUE),
      Fld("breast_composition", "list", TRUE),
      Fld("birads_score", "int", TRUE),
      Fld("birads_composition_comments", "str", TRUE),
      Fld("impression", "str", FALSE),
      Fld("hospital_name", "str", TRUE),
      Fld("lab_technician", "str", FALSE) }

Schema(kind) ==
    CASE kind = "ctscan"    -> CTScanReport
      [] kind = "petct"     -> PETCTReport
      [] kind = "mammogram" -> MammogramReport

\* the strings of the modelled values that parse as a calendar date / an integer
IsoDates == {"2024-01-15"}

DigitStrings == {"0", "1", "4"}

\* pydantic's (lax) validation of one present entry against a declared type:
\* ok says whether it is accepted, t and s are the validated value.
Coerce(type, e) ==
    CASE type = "str" ->
           [ok |-> e.t = "str", t |-> "str", s |-> e.s]
      [] type = "date" ->
           [ok |-> e.t = "str" /\ e.s \in IsoDates, t |-> "date", s |-> e.s]
      [] type = "bool" ->
           IF e.t = "bool" THEN [ok |-> TRUE, t |-> "bool", s |-> e.s]
           ELSE IF e.t = "str" /\ e.s \in {"true", "false"}
           THEN [ok |-> TRUE, t |-> "bool",
                 s |-> IF e.s = "true" THEN "True" ELSE "False"]
           ELSE [ok |-> FALSE, t |-> e.t, s |-> e.s]
      [] type = "int" ->
           [ok |-> e.t = "int" \/ (e.t = "str" /\ e.s \in DigitStrings),
            t |-> "int", s |-> e.s]
      [] type = "list" ->
           [ok |-> e.t = "list" /\ e.s = "[]", t |-> "list", s |-> e.s]

\* the validated value of field f in the mapping m
FieldValue(f, m) ==
    IF f.name \notin Keys(m)
    THEN [ok |-> ~f.required, t |-> "NoneType", s |-> "None"]
    ELSE IF ~f.required /\ Get(m, f.name).t = "NoneType"
    THEN [ok |-> TRUE, t |-> "NoneType", s |-> "None"]
    ELSE Coerce(f.type, Get(m, f.name))

\* a dump of the keys that were given only (as model_dump(exclude_unset=True))
ValidateReport_ExcludeUnset(kind, v) ==
    IF v.t # "dict" THEN [raised |-> TRUE, dump |-> v]
    ELSE IF \E f \in Schema(kind) : ~FieldValue(f, v.m).ok
    THEN [raised |-> TRUE, dump |-> v]
    ELSE [raised |-> FALSE,
          dump |-> Dict({ Entry(f.name, FieldValue(f, v.m).t, FieldValue(f, v.m).s)
                          : f \in {g \in Schema(kind) : g.name \in Keys(v.m)} })]

\* `Report(**structured_data)` followed by `.model_dump()`: raises when the
\* value is no mapping (TypeError) or breaks the schema (ValidationError);
\* otherwise the dump holds exactly the schema's fields, absent optional ones
\* as None, unknown keys dropped.
ValidateReport(kind, v) ==
    IF v.t # "dict" THEN [raised |-> TRUE, dump |-> v]
    ELSE IF \E f \in Schema(kind) : ~FieldValue(f, v.m).ok
    THEN [raised |-> TRUE, dump |-> v]
    ELSE [raised |-> FALSE,
          dump |-> Dict({ Entry(f.name, FieldValue(f, v.m).t, FieldValue(f, v.m).s)
                          : f \in Schema(kind) })]

\* ------------------------------------------------- values the LLM can send
CTDoc ==
    { Entry("patient_name", "str", "Jane Doe"),
      Entry("test_type", "str", "CT"),
      Entry("date_of_test", "str", "2024-01-15"),
      Entry("imaging_site", "str", "Abdomen"),
      Entry("contrast_enhanced", "bool", "True"),
      Entry("new_lesion_evidence", "bool", "False"),
      Entry("lesions", "list", "[]"),
      Entry("impression", "str", "No acute findings."),
      Entry("hospital_name", "str", "General Hospital") }

PETDoc ==
    { Entry("patient_name", "str", "Jane Doe"),
      Entry("date_of_test", "str", "2024-01-15"),
      Entry("test_type", "str", "PET-CT"),
      Entry("organ_systems", "list", "[]"),
      Entry("impression", "str", "No acute findings."),
      Entry("hospital_lab_name", "str", "General Hospital"),
      Entry("hospital_lab_id", "str", "GH-1") }

MammoDoc ==
    { Entry("patient_name", "str", "Jane Doe"),
      Entry("test_type", "str", "Mammogram"),
      Entry("date_of_test", "str", "2024-01-15"),
      Entry("reason_for_test", "str", "Screening"),
      Entry("breast_composition", "list", "[]"),
      Entry("birads_score", "str", "4"),
      Entry("birads_composition_comments", "str", "Scattered density"),
      Entry("hospital_name", "str", "General Hospital"),
      Entry("note", "str", "not a schema field") }

Without(m, k) == {e \in m : e.k # k}

\* what json.loads can return for a well-formed text
JsonValues ==
    { EmptyDict,
      PyNone,
      Scalar("list", "[]"),
      Scalar("list", "[1]"),
      Scalar("int", "5"),
      Dict(CTDoc),
      Dict(Without(CTDoc, "patient_name")),
      Dict((Without(CTDoc, "date_of_test")) \cup {Entry("date_of_test", "str", "15/01/2024")}),
      Dict(PETDoc),
      Dict(MammoDoc) }

\* `message.content` of the chat response: empty, not JSON, or the text of a
\* JSON value
Content(text, value) == [text |-> text, value |-> value]

Contents ==
    { Content("empty", PyNone), Content("malformed", PyNone) }
        \cup { Content("json", v) : v \in JsonValues }

\* json.loads: raises on text that is not JSON, else decodes the value
JsonLoads(content) ==
    IF content.text = "json"
    THEN [raised |-> FALSE, value |-> content.value]
    ELSE [raised |-> TRUE, value |-> PyNone]

\* client.chat.complete(...): raises (transport or service error) or answers
LLMReplies ==
    { [call |-> "raises", content |-> Content("empty", PyNone)] }
        \cup { [call |-> "returns", content |-> c] : c \in Contents }

\* --------------------------------------------------------------- exceptions
\* str(e) of the exceptions the code can meet
KeyUnsetMsg == "MISTRAL_API_KEY environment variable not set."

TempfileMsg == "cannot create temporary file"

WriteMsg == "cannot write temporary file"

ConverterCtorMsg == "MarkdownConverter() failed"

ClientCtorMsg == "Mistral() failed"

ConversionMsg == "pdf_to_markdown_text failed"

ResponseMsg == "1 validation error for response: data: Input should be a valid dictionary"

\* -------------------------------------------------------------------- state
VARIABLES
    program,         \* which entry point runs: the service (app) or md_to_json's main
    apiKeySet,       \* bool(os.environ.get('MISTRAL_API_KEY')), fixed at start
    _converter,      \* app.py global: 0 is None, n > 0 the n-th instance built
    _mistral_client, \* md_to_json.py global, likewise
    built,           \* how many instances of each singleton were constructed
    files,           \* the temporary files on disk (named by their request)
    loop,            \* the request running on the event loop, 0 when idle
    req,             \* per request: the handler's locals, call counts, response
    health,          \* the last answer of GET /health
    cli              \* the command-line run of md_to_json.main

vars == <<program, apiKeySet, _converter, _mistral_client, built, files, loop, req, health, cli>>

NoResp == [type |-> "none"]

\* raise HTTPException(status_code=..., detail=...)
HTTPException(status_code, detail) ==
    [type |-> "HTTPException", status_code |-> status_code, detail |-> detail]

\* CTScanResponse / PETCTResponse / MammogramResponse: the four-field envelope
Envelope(success, message, data) ==
    [type |-> "envelope", status_code |-> 200, success |-> success,
     message |-> message, data |-> data, processing_time |-> "elapsed"]

\* constructing the response model: `data: Optional[dict]` rejects a value
\* that is neither a dict nor None
ResponseModel(success, message, data) ==
    IF data.t \in {"dict", "NoneType"}
    THEN [raised |-> FALSE, value |-> Envelope(success, message, data)]
    ELSE [raised |-> TRUE, value |-> NoResp]

KindLabel(kind) ==
    CASE kind = "ctscan"    -> "CT Scan"
      [] kind = "petct"     -> "PETCT"
      [] kind = "mammogram" -> "Mammogram"

\* a local the handler has not assigned yet / has assigned the text t
Unassigned == [set |-> FALSE, text |-> <<>>]

Assigned(t) == [set |-> TRUE, text |-> t]

NewRequest ==
    [pc |-> "new", kind |-> "none", filename |-> NoFilename,
     temp_file_path |-> 0, tasks |-> 0,
     convCalls |-> 0, extractCalls |-> 0, validateCalls |-> 0,
     markdown_text |-> Unassigned, structured_data |-> PyNone,
     warned |-> FALSE, resp |-> NoResp]

Init ==
    /\ program \in {"app", "md_to_json"}
    /\ apiKeySet \in BOOLEAN
    /\ _converter = 0
    /\ _mistral_client = 0
    /\ built = [converter |-> 0, client |-> 0]
    /\ files = {}
    /\ loop = 0
    /\ req = [r \in Requests |-> NewRequest]
    /\ health = [resp |-> NoResp, clientCalls |-> 0, converterCalls |-> 0]
    /\ cli = [pc |-> "start", called |-> FALSE, raised |-> FALSE, exc |-> "",
              value |-> PyNone]

\* --------------------------------------------------------------- singletons
\* a converter built on every call, the global never consulted
get_converter_AlwaysNew(cur, key, nbuilt, ctorOk) ==
    IF ~key THEN [raised |-> TRUE, exc |-> KeyUnsetMsg, value |-> cur, nbuilt |-> nbuilt]
    ELSE IF ~ctorOk THEN [raised |-> TRUE, exc |-> ConverterCtorMsg, value |-> cur, nbuilt |-> nbuilt]
    ELSE [raised |-> FALSE, exc |-> "", value |-> nbuilt + 1, nbuilt |-> nbuilt + 1]

\* the converter built without looking at the key
get_converter_NoKeyCheck(cur, key, nbuilt, ctorOk) ==
    IF cur # 0 THEN [raised |-> FALSE, exc |-> "", value |-> cur, nbuilt |-> nbuilt]
    ELSE IF ~ctorOk THEN [raised |-> TRUE, exc |-> ConverterCtorMsg, value |-> 0, nbuilt |-> nbuilt]
    ELSE [raised |-> FALSE, exc |-> "", value |-> nbuilt + 1, nbuilt |-> nbuilt + 1]

\* get_converter(): the result of the call from the global's value `cur`;
\* ctorOk says whether MarkdownConverter(api_key=...) returns.
get_converter(cur, key, nbuilt, ctorOk) ==
    IF cur # 0 THEN [raised |-> FALSE, exc |-> "", value |-> cur, nbuilt |-> nbuilt]
    ELSE IF ~key THEN [raised |-> TRUE, exc |-> KeyUnsetMsg, value |-> 0, nbuilt |-> nbuilt]
    ELSE IF ~ctorOk THEN [raised |-> TRUE, exc |-> ConverterCtorMsg, value |-> 0, nbuilt |-> nbuilt]
    ELSE [raised |-> FALSE, exc |-> "", value |-> nbuilt + 1, nbuilt |-> nbuilt + 1]

\* get_mistral_client(), likewise with Mistral(api_key=...)
get_mistral_client(cur, key, nbuilt, ctorOk) ==
    IF cur # 0 THEN [raised |-> FALSE, exc |-> "", value |-> cur, nbuilt |-> nbuilt]
    ELSE IF ~key THEN [raised |-> TRUE, exc |-> KeyUnsetMsg, value |-> 0, nbuilt |-> nbuilt]
    ELSE IF ~ctorOk THEN [raised |-> TRUE, exc |-> ClientCtorMsg, value |-> 0, nbuilt |-> nbuilt]
    ELSE [raised |-> FALSE, exc |-> "", value |-> nbuilt + 1, nbuilt |-> nbuilt + 1]

\* --------------------------------------------------------------- extraction
\* The body shared by get_ctscan_json / get_petct_json / get_mammogram_json:
\* the client is fetched before the try block, so its error leaves the
\* function; inside the try block every failure ends in {}.
ExtractJson(cur, key, nbuilt, ctorOk, reply) ==
    LET gc == get_mistral_client(cur, key, nbuilt, ctorOk) IN
    IF gc.raised
    THEN [raised |-> TRUE, exc |-> gc.exc, value |-> PyNone, client |-> gc]
    ELSE IF reply.call = "raises"
    THEN [raised |-> FALSE, exc |-> "", value |-> EmptyDict, client |-> gc]
    ELSE IF reply.content.text = "empty"
    THEN [raised |-> FALSE, exc |-> "", value |-> EmptyDict, client |-> gc]
    ELSE IF JsonLoads(reply.content).raised
    THEN [raised |-> FALSE, exc |-> "", value |-> EmptyDict, client |-> gc]
    ELSE [raised |-> FALSE, exc |-> "", value |-> JsonLoads(reply.content).value,
          client |-> gc]

get_ctscan_json(cur, key, nbuilt, ctorOk, reply) ==
    ExtractJson(cur, key, nbuilt, ctorOk, reply)

get_petct_json(cur, key, nbuilt, ctorOk, reply) ==
    ExtractJson(cur, key, nbuilt, ctorOk, reply)

get_mammogram_json(cur, key, nbuilt, ctorOk, reply) ==
    ExtractJson(cur, key, nbuilt, ctorOk, reply)

GetJson(kind, cur, key, nbuilt, ctorOk, reply) ==
    CASE kind = "ctscan"    -> get_ctscan_json(cur, key, nbuilt, ctorOk, reply)
      [] kind = "petct"     -> get_petct_json(cur, key, nbuilt, ctorOk, reply)
      [] kind = "mammogram" -> get_mammogram_json(cur, key, nbuilt, ctorOk, reply)

\* ------------------------------------------------------------ request exits
\* `raise HTTPException(status_code=400, ...)` inside the try block: the
\* `except HTTPException: raise` branch re-raises it and schedules nothing.
Http400(q, text) ==
    [q EXCEPT !.pc = "responded", !.resp = HTTPException(400, <<text>>)]

\* the `except Exception as e` branch: schedules the cleanup when a temporary
\* file was named, then raises a 500 whose detail embeds str(e)
Http500(q, e) ==
    [q EXCEPT !.pc = "responded",
              !.tasks = IF q.temp_file_path # 0 THEN @ + 1 ELSE @,
              !.resp = HTTPException(500, <<"Internal server error: ", e>>)]

\* ------------------------------------------------------------ handler steps
\* Requests are numbered in the order they arrive.  A handler that has ended
\* (pc = "responded") still holds the loop until Finish hands its response
\* to the server.
\* Filename check and NamedTemporaryFile(delete=False), up to `await file.read()`.
Receive(r, kind) ==
    /\ program = "app"
    /\ req[r].pc = "new"
    /\ loop = 0
    /\ \A p \in Requests : p < r => req[p].pc # "new"
    /\ \E filename \in Filenames, fsOk \in BOOLEAN :
         LET q == [req[r] EXCEPT !.kind = kind, !.filename = filename] IN
         IF BadFilename(filename)
         THEN /\ req' = [req EXCEPT ![r] = Http400(q, "Only PDF files are supported")]
              /\ loop' = r
              /\ UNCHANGED files
         ELSE IF ~fsOk
         THEN /\ req' = [req EXCEPT ![r] = Http500(q, TempfileMsg)]
              /\ loop' = r
              /\ UNCHANGED files
         ELSE /\ req' = [req EXCEPT ![r] = [q EXCEPT !.pc = "reading",
                                                     !.temp_file_path = r]]
              /\ files' = files \cup {r}
              /\ UNCHANGED loop
    /\ UNCHANGED <<program, apiKeySet, _converter, _mistral_client, built, health, cli>>

\* `content = await file.read(); temp_file.write(content)`: the coroutine
\* resumes and keeps the loop until it ends.
ReadWrite(r, kind) ==
    /\ req[r].pc = "reading"
    /\ req[r].kind = kind
    /\ loop = 0
    /\ loop' = r
    /\ \E ioOk \in BOOLEAN :
         IF ioOk
         THEN req' = [req EXCEPT ![r].pc = "converting"]
         ELSE req' = [req EXCEPT ![r] = Http500(req[r], WriteMsg)]
    /\ UNCHANGED <<program, apiKeySet, _converter, _mistral_client, built, files, health, cli>>

\* what pdf_to_markdown_text does: raises or returns a text
ConversionOutcomes ==
    { [raises |-> TRUE, text |-> <<>>] }
        \cup { [raises |-> FALSE, text |-> t] : t \in MarkdownTexts }

\* `converter = get_converter()`, `pdf_to_markdown_text(...)`, the strip() test
Convert(r, kind) ==
    /\ req[r].pc = "converting"
    /\ req[r].kind = kind
    /\ loop = r
    /\ \E ctorOk \in BOOLEAN, conv \in ConversionOutcomes :
         LET gc == get_converter(_converter, apiKeySet, built.converter, ctorOk)
             q  == [req[r] EXCEPT !.convCalls = @ + 1]
             qt == [q EXCEPT !.markdown_text = Assigned(conv.text)]
         IN
         IF gc.raised
         THEN /\ req' = [req EXCEPT ![r] = Http500(req[r], gc.exc)]
              /\ UNCHANGED <<_converter, built>>
         ELSE /\ _converter' = gc.value
              /\ built' = [built EXCEPT !.converter = gc.nbuilt]
              /\ IF conv.raises
                 THEN req' = [req EXCEPT ![r] = Http500(q, ConversionMsg)]
                 ELSE IF Strip(conv.text) = <<>>
                 THEN req' = [req EXCEPT ![r] =
                                Http400(qt, "Failed to extract text from PDF")]
                 ELSE req' = [req EXCEPT ![r] = [qt EXCEPT !.pc = "extracting"]]
    /\ UNCHANGED <<program, apiKeySet, _mistral_client, files, loop, health, cli>>

\* `structured_data = get_..._json(markdown_text)` and the emptiness test
Extract(r, kind) ==
    /\ req[r].pc = "extracting"
    /\ req[r].kind = kind
    /\ loop = r
    /\ \E ctorOk \in BOOLEAN, reply \in LLMReplies :
         LET ex == GetJson(kind, _mistral_client, apiKeySet, built.client, ctorOk, reply)
             q  == [req[r] EXCEPT !.extractCalls = @ + 1]
         IN
         /\ _mistral_client' = ex.client.value
         /\ built' = [built EXCEPT !.client = ex.client.nbuilt]
         /\ IF ex.raised
            THEN req' = [req EXCEPT ![r] = Http500(q, ex.exc)]
            ELSE IF ~Truthy(ex.value)
            THEN req' = [req EXCEPT ![r] =
                           Http400([q EXCEPT !.structured_data = ex.value],
                                   "Failed to extract structured data from document")]
            ELSE req' = [req EXCEPT ![r] = [q EXCEPT !.pc = "validating",
                                                     !.structured_data = ex.value]]
    /\ UNCHANGED <<program, apiKeySet, _converter, files, loop, health, cli>>

\* a fallback that drops the extracted value
ValidatedData_Drop(kind, structured_data) ==
    IF ValidateReport(kind, structured_data).raised
    THEN EmptyDict
    ELSE ValidateReport(kind, structured_data).dump

\* the inner try/except around the report model: the dump of the typed
\* report, or on any exception the extracted value itself
ValidatedData(kind, structured_data) ==
    IF ValidateReport(kind, structured_data).raised
    THEN structured_data
    ELSE ValidateReport(kind, structured_data).dump

\* validation with fallback (a warning is logged when it falls back),
\* add_task, and the response
Validate(r, kind) ==
    /\ req[r].pc = "validating"
    /\ req[r].kind = kind
    /\ loop = r
    /\ LET sd == req[r].structured_data
           validated_data == ValidatedData(kind, sd)
           q  == [req[r] EXCEPT !.validateCalls = @ + 1, !.tasks = @ + 1,
                                !.warned = ValidateReport(kind, sd).raised]
           rm == ResponseModel(TRUE,
                               <<"Successfully processed ", KindLabel(kind),
                                 " report: ", req[r].filename>>,
                               validated_data)
       IN
       IF rm.raised
       THEN req' = [req EXCEPT ![r] = Http500(q, ResponseMsg)]
       ELSE req' = [req EXCEPT ![r] = [q EXCEPT !.pc = "responded", !.resp = rm.value]]
    /\ UNCHANGED <<program, apiKeySet, _converter, _mistral_client, built, files,
                   loop, health, cli>>

\* The coroutine ends: its locals and the response leave the process, the
\* loop is free, and what stays is the list of background tasks (each a call
\* of cleanup_temp_file on temp_file_path).
Finish(r, kind) ==
    /\ req[r].pc = "responded"
    /\ req[r].kind = kind
    /\ loop = r
    /\ loop' = 0
    /\ req' = [req EXCEPT ![r] =
                 [NewRequest EXCEPT
                    !.pc = "sent",
                    !.tasks = req[r].tasks,
                    !.temp_file_path =
                        IF req[r].tasks > 0 THEN req[r].temp_file_path ELSE 0]]
    /\ UNCHANGED <<program, apiKeySet, _converter, _mistral_client, built, files, health, cli>>

Handler(r, kind) ==
    \/ Receive(r, kind)
    \/ ReadWrite(r, kind)
    \/ Convert(r, kind)
    \/ Extract(r, kind)
    \/ Validate(r, kind)
    \/ Finish(r, kind)

process_ctscan_report(r) == Handler(r, "ctscan")

process_petct_report(r) == Handler(r, "petct")

process_mammogram_report(r) == Handler(r, "mammogram")

\* ------------------------------------------------------------------ cleanup
\* cleanup_temp_file(file_path): removes the file when it exists (os.remove
\* is taken to succeed; its failure is only logged)
cleanup_temp_file(fs, file_path) ==
    IF file_path \in fs THEN fs \ {file_path} ELSE fs

RECURSIVE RunTasks(_, _, _)
RunTasks(fs, file_path, n) ==
    IF n = 0 THEN fs ELSE RunTasks(cleanup_temp_file(fs, file_path), file_path, n - 1)

\* The tasks added to background_tasks run once the response is out.
RunBackground(r) ==
    /\ req[r].pc = "sent"
    /\ loop = 0
    /\ files' = RunTasks(files, req[r].temp_file_path, req[r].tasks)
    /\ req' = [req EXCEPT ![r].pc = "closed"]
    /\ UNCHANGED <<program, apiKeySet, _converter, _mistral_client, built, loop, health, cli>>

\* ------------------------------------------------------------- health check
HealthResponse(status, mistral_api_configured) ==
    [type |-> "HealthResponse", status_code |-> 200, status |-> status,
     mistral_api_configured |-> mistral_api_configured]

\* the getters called whether or not the key is configured
HealthResult_Eager(mistral_configured, gm, gc) ==
    IF gm.raised
    THEN [resp |-> HTTPException(500, <<"Service unhealthy: ", gm.exc>>),
          clientCalls |-> 1, converterCalls |-> 0]
    ELSE IF gc.raised
    THEN [resp |-> HTTPException(500, <<"Service unhealthy: ", gc.exc>>),
          clientCalls |-> 1, converterCalls |-> 1]
    ELSE [resp |-> HealthResponse("healthy", mistral_configured),
          clientCalls |-> 1, converterCalls |-> 1]

\* The body of health_check from the two getters' results gm and gc: the
\* answer, how often each getter was called, and which globals it set.
HealthResult(mistral_configured, gm, gc) ==
    IF ~mistral_configured
    THEN [resp |-> HealthResponse("healthy", mistral_configured),
          clientCalls |-> 0, converterCalls |-> 0]
    ELSE IF gm.raised
    THEN [resp |-> HTTPException(500, <<"Service unhealthy: ", gm.exc>>),
          clientCalls |-> 1, converterCalls |-> 0]
    ELSE IF gc.raised
    THEN [resp |-> HTTPException(500, <<"Service unhealthy: ", gc.exc>>),
          clientCalls |-> 1, converterCalls |-> 1]
    ELSE [resp |-> HealthResponse("healthy", mistral_configured),
          clientCalls |-> 1, converterCalls |-> 1]

\* GET /health: a coroutine without await, so it runs in one piece
health_check ==
    /\ program = "app"
    /\ loop = 0
    /\ \E clientOk \in BOOLEAN, converterOk \in BOOLEAN :
         LET gm == get_mistral_client(_mistral_client, apiKeySet, built.client, clientOk)
             gc == get_converter(_converter, apiKeySet, built.converter, converterOk)
             h  == HealthResult(apiKeySet, gm, gc)
         IN
         /\ health' = h
         /\ _mistral_client' = IF h.clientCalls = 1 THEN gm.value ELSE _mistral_client
         /\ _converter' = IF h.converterCalls = 1 THEN gc.value ELSE _converter
         /\ built' = [client    |-> IF h.clientCalls = 1 THEN gm.nbuilt ELSE built.client,
                      converter |-> IF h.converterCalls = 1 THEN gc.nbuilt ELSE built.converter]
    /\ UNCHANGED <<program, apiKeySet, files, loop, req, cli>>

\* ------------------------------------------------------- command-line entry
\* md_to_json.main(): reads the markdown file, picks the extraction function
\* by --report_type and calls it once, in a process of its own whose client
\* global is still None.  Nothing in main catches what the call raises.
main ==
    /\ program = "md_to_json"
    /\ cli.pc = "start"
    /\ \E fileFound \in BOOLEAN, report_type \in Kinds \cup {"none"},
          ctorOk \in BOOLEAN, reply \in LLMReplies :
         IF ~fileFound \/ report_type = "none"
         THEN cli' = [cli EXCEPT !.pc = "done"]
         ELSE LET ex == GetJson(report_type, 0, apiKeySet, 0, ctorOk, reply) IN
              cli' = [pc |-> "done", called |-> TRUE, raised |-> ex.raised,
                      exc |-> ex.exc, value |-> ex.value]
    /\ UNCHANGED <<program, apiKeySet, _converter, _mistral_client, built, files,
                   loop, req, health>>

\* -------------------------------------------------------------------- system
Next ==
    \/ \E r \in Requests : process_ctscan_report(r)
    \/ \E r \in Requests : process_petct_report(r)
    \/ \E r \in Requests : process_mammogram_report(r)
    \/ \E r \in Requests : RunBackground(r)
    \/ health_check
    \/ main

Spec == Init /\ [][Next]_vars

\* ====================================================================
\* Properties
\* ====================================================================

\* a handler that has ended and whose response is still in hand
Ended(r) == req[r].pc = "responded"

\* C1: on every exit path of a request (success, each 400, 500) the cleanup
\* of the temporary file is scheduled exactly once.
C1_CleanupScheduledOncePerRequest ==
    \A r \in Requests : Ended(r) => req[r].tasks = 1

\* C2: when extraction returns a non-empty mapping that fails structural
\* validation (the fallback warning is logged, or a required field of the
\* schema is missing), the request ends in a 200 envelope with success = TRUE
\* whose data is that very mapping.
C2_MissesRequired(kind, v) ==
    \E f \in Schema(kind) : f.required /\ f.name \notin Keys(v.m)

C2_InvalidMappingPassesThrough ==
    \A r \in Requests :
        ( /\ Ended(r)
          /\ req[r].validateCalls = 1
          /\ req[r].structured_data.t = "dict"
          /\ req[r].structured_data.m # {}
          /\ req[r].warned \/ C2_MissesRequired(req[r].kind, req[r].structured_data) )
        => /\ req[r].warned
           /\ req[r].resp.type = "envelope"
           /\ req[r].resp.status_code = 200
           /\ req[r].resp.success = TRUE
           /\ req[r].resp.data = req[r].structured_data

C2_Witness ==
    \E r \in Requests :
        /\ Ended(r)
        /\ req[r].kind = "mammogram"
        /\ req[r].structured_data = Dict(Without(CTDoc, "patient_name"))
        /\ req[r].warned
        /\ req[r].resp.type = "envelope"
        /\ req[r].resp.data = req[r].structured_data

\* C3: a request whose filename is missing or does not end in ".pdf"
\* (whatever the case of the letters) ends in a 400 with neither conversion
\* nor extraction invoked; a name ending in ".PDF" or ".Pdf" is not refused.
C3_IsPdfName(f) ==
    /\ Len(f) >= 4
    /\ f[Len(f) - 3] = "."
    /\ f[Len(f) - 2] \in {"p", "P"}
    /\ f[Len(f) - 1] \in {"d", "D"}
    /\ f[Len(f)] \in {"f", "F"}

C3_Refused(r) ==
    /\ req[r].resp.type = "HTTPException"
    /\ req[r].resp.status_code = 400
    /\ req[r].resp.detail = <<"Only PDF files are supported">>

C3_NonPdfRefusedBeforeProcessing ==
    \A r \in Requests :
        req[r].kind # "none" =>
            IF C3_IsPdfName(req[r].filename)
            THEN ~C3_Refused(r)
            ELSE /\ Ended(r)
                 /\ C3_Refused(r)
                 /\ req[r].convCalls = 0
                 /\ req[r].extractCalls = 0
                 /\ req[r].temp_file_path = 0

C3_Witness ==
    /\ \E r \in Requests :
          /\ Ended(r)
          /\ req[r].filename = <<"a", ".", "t", "x", "t">>
          /\ C3_Refused(r)
    /\ \E r \in Requests :
          /\ req[r].filename = <<"a", ".", "P", "D", "F">>
          /\ req[r].pc = "reading"

\* C4: when conversion returns an empty or whitespace-only text, the request
\* ends in a 400 and extraction is never invoked for it.
C4_Blank(t) == \A i \in 1..Len(t) : t[i] \in {" ", "\n", "\t"}

C4_BlankTextStopsBeforeExtraction ==
    \A r \in Requests :
        (req[r].markdown_text.set /\ C4_Blank(req[r].markdown_text.text))
        => /\ Ended(r)
           /\ req[r].resp.type = "HTTPException"
           /\ req[r].resp.status_code = 400
           /\ req[r].extractCalls = 0

C4_Witness ==
    \E r \in Requests :
        /\ Ended(r)
        /\ req[r].convCalls = 1
        /\ req[r].markdown_text = Assigned(<<" ", "\n">>)
        /\ req[r].resp.status_code = 400

\* C5: when extraction returns an empty mapping, the request ends in a 400
\* (not 200, not 500) and validation is never attempted.
C5_EmptyExtractionIs400 ==
    \A r \in Requests :
        (req[r].extractCalls = 1 /\ req[r].structured_data = EmptyDict)
        => /\ Ended(r)
           /\ req[r].resp.type = "HTTPException"
           /\ req[r].resp.status_code = 400
           /\ req[r].validateCalls = 0
           /\ ~req[r].warned

C5_Witness ==
    \E r \in Requests :
        /\ Ended(r)
        /\ req[r].extractCalls = 1
        /\ req[r].structured_data = EmptyDict
        /\ req[r].resp.status_code = 400

\* C6: the extraction function never raises to its caller; every failure,
\* those of the client included, comes back as an empty mapping.
C6_ExtractionNeverRaises ==
    (cli.pc = "done" /\ cli.called) => ~cli.raised

\* C7: every response of the POST endpoints, on failure as on success, is the
\* envelope {success, message, data, processing_time}, with success = FALSE
\* on failure.
C7_EveryResponseIsEnvelope ==
    \A r \in Requests :
        Ended(r) =>
            /\ req[r].resp.type = "envelope"
            /\ (req[r].resp.status_code # 200 => req[r].resp.success = FALSE)

\* C8: once a request's deferred actions have run, the temporary file it
\* wrote exists no more.
C8_NoTempFileOutlivesRequest ==
    \A r \in Requests : req[r].pc = "closed" => r \notin files

\* C9: a 500 of the handlers or of the health check carries a fixed generic
\* message only, without the text of the exception behind it.
C9_Generic(resp) ==
    (resp.type = "HTTPException" /\ resp.status_code = 500) => Len(resp.detail) = 1

C9_ServerErrorsAreGeneric ==
    /\ \A r \in Requests : C9_Generic(req[r].resp)
    /\ C9_Generic(health.resp)

\* C10: with MISTRAL_API_KEY unset the health check answers normally, with
\* mistral_api_configured = FALSE, and calls neither client getter.
C10_HealthWithoutKey ==
    (~apiKeySet /\ health.resp.type # "none")
    => /\ health.resp = HealthResponse("healthy", FALSE)
       /\ health.clientCalls = 0
       /\ health.converterCalls = 0
       /\ _mistral_client = 0
       /\ _converter = 0

C10_Witness ==
    /\ ~apiKeySet
    /\ health.resp.type = "HealthResponse"
    /\ health.resp.mistral_api_configured = FALSE

\* a request whose extracted value passed validation and was answered
C11_Validated(r) ==
    /\ Ended(r)
    /\ req[r].validateCalls = 1
    /\ ~req[r].warned
    /\ req[r].resp.type = "envelope"

\* C11 (as claimed): an extraction result that satisfies its schema comes
\* back unchanged: the data has the same keys as the extracted mapping and,
\* key by key, the same value up to the coercion of its type.
C11_RoundTripUnchanged ==
    \A r \in Requests :
        C11_Validated(r) =>
            /\ Keys(req[r].resp.data.m) = Keys(req[r].structured_data.m)
            /\ \A k \in Keys(req[r].structured_data.m) :
                   Get(req[r].resp.data.m, k).s = Get(req[r].structured_data.m, k).s

\* C11 (amended): the data holds exactly the fields of the schema; a field
\* the extracted mapping gives (not as null) keeps its value, carried to the
\* declared type; a field it does not give is None; keys outside the schema
\* are dropped.
C11_FieldKept(f, given, out) ==
    /\ out.t = f.type
    /\ (given.t = out.t \/ (given.t = "str" /\ f.type \in {"int", "date"}))
           => out.s = given.s

C11_DumpIsSchemaShaped ==
    \A r \in Requests :
        C11_Validated(r) =>
            LET given == req[r].structured_data.m
                out   == req[r].resp.data.m
            IN
            /\ req[r].structured_data.t = "dict"
            /\ Keys(out) = {f.name : f \in Schema(req[r].kind)}
            /\ \A f \in Schema(req[r].kind) :
                   IF f.name \in Keys(given) /\ Get(given, f.name).t # "NoneType"
                   THEN C11_FieldKept(f, Get(given, f.name), Get(out, f.name))
                   ELSE /\ ~f.required
                        /\ Get(out, f.name).t = "NoneType"

C11_Witness ==
    \E r \in Requests :
        /\ C11_Validated(r)
        /\ req[r].kind = "mammogram"
        /\ req[r].structured_data = Dict(MammoDoc)
        /\ Get(req[r].resp.data.m, "birads_score") = Entry("birads_score", "int", "4")
        /\ Get(req[r].resp.data.m, "impression").t = "NoneType"
        /\ "note" \notin Keys(req[r].resp.data.m)

\* a request with a filename ending in ".pdf" whose handler has ended
C12_PdfRequestEnded(r) ==
    /\ Ended(r)
    /\ req[r].kind # "none"
    /\ C3_IsPdfName(req[r].filename)

C12_NothingInvoked(r) ==
    /\ req[r].resp.type = "HTTPException"
    /\ req[r].resp.status_code = 500
    /\ req[r].convCalls = 0
    /\ req[r].extractCalls = 0

\* C12 (as claimed): with MISTRAL_API_KEY unset, every POST with a ".pdf"
\* filename ends in a 500 that reports the configuration error, with neither
\* conversion nor extraction invoked and no singleton client created.
C12_EveryPdfRequestReportsMissingKey ==
    ~apiKeySet =>
        /\ _converter = 0 /\ _mistral_client = 0
        /\ built = [converter |-> 0, client |-> 0]
        /\ \A r \in Requests :
               C12_PdfRequestEnded(r) =>
                   /\ C12_NothingInvoked(r)
                   /\ req[r].resp.detail = <<"Internal server error: ", KeyUnsetMsg>>

\* C12 (amended): ... ends in a 500, with neither conversion nor extraction
\* invoked and no singleton created; the 500 reports the configuration error
\* unless creating or writing the temporary file failed first, in which case
\* it reports that error.
C12_MissingKeyFailsEveryPdfRequest ==
    ~apiKeySet =>
        /\ _converter = 0 /\ _mistral_client = 0
        /\ built = [converter |-> 0, client |-> 0]
        /\ \A r \in Requests :
               /\ req[r].pc \notin {"extracting", "validating"}
               /\ C12_PdfRequestEnded(r) =>
                      /\ C12_NothingInvoked(r)
                      /\ req[r].resp.detail[2] \in {KeyUnsetMsg, TempfileMsg, WriteMsg}
                      /\ req[r].resp.detail[2] = TempfileMsg <=> req[r].temp_file_path = 0

C12_Witness ==
    /\ ~apiKeySet
    /\ \E r \in Requests :
          /\ C12_PdfRequestEnded(r)
          /\ req[r].temp_file_path = r
          /\ req[r].resp = HTTPException(500, <<"Internal server error: ", KeyUnsetMsg>>)

\* C13: once extraction has returned a non-empty value (whatever json.loads
\* can produce), validation with fallback cannot fail the request: it ends
\* in a 200 success response.
C13_ValidationNeverFailsRequest ==
    \A r \in Requests :
        (Ended(r) /\ req[r].validateCalls = 1)
        => /\ req[r].resp.type = "envelope"
           /\ req[r].resp.status_code = 200
           /\ req[r].resp.success = TRUE

\* C14: each of the two singleton clients is constructed at most once per
\* process, and once one exists every later step leaves that same instance
\* in place (the getters return the global).
C14_SingletonsBuiltOnce ==
    [][ /\ built'.converter <= 1
        /\ built'.client <= 1
        /\ _converter' = built'.converter
        /\ _mistral_client' = built'.client
        /\ _converter # 0 => _converter' = _converter
        /\ _mistral_client # 0 => _mistral_client' = _mistral_client ]_vars

C14_Witness ==
    /\ health.resp.type = "HealthResponse"
    /\ health.clientCalls = 1
    /\ health.converterCalls = 1
    /\ built = [converter |-> 1, client |-> 1]
    /\ \E r \in Requests :
          /\ req[r].convCalls = 1
          /\ req[r].extractCalls = 1
    /\ \E r \in Requests : req[r].pc = "sent"

\* C15: within one request the steps run in the order converting,
\* extracting, validating, responding, none repeated: conversion and
\* extraction are invoked at most once, extraction only after conversion
\* returned a text that is not blank, validation only after extraction
\* returned a non-empty value, a success response only after validation.
C15_NonEmpty(v) ==
    /\ ~(v.t = "dict" /\ v.m = {})
    /\ v.t # "NoneType"
    /\ v.s \notin {"[]", "0", "False"}

C15_Progress(q) ==
    CASE q.pc = "new"        -> q.convCalls = 0 /\ q.extractCalls = 0 /\ q.validateCalls = 0
      [] q.pc = "reading"    -> q.convCalls = 0 /\ q.extractCalls = 0 /\ q.validateCalls = 0
      [] q.pc = "converting" -> q.convCalls = 0 /\ q.extractCalls = 0 /\ q.validateCalls = 0
      [] q.pc = "extracting" -> q.convCalls = 1 /\ q.extractCalls = 0 /\ q.validateCalls = 0
      [] q.pc = "validating" -> q.convCalls = 1 /\ q.extractCalls = 1 /\ q.validateCalls = 0
      [] OTHER               -> TRUE

C15_StepsInOrder ==
    \A r \in Requests :
        /\ req[r].convCalls <= 1
        /\ req[r].extractCalls <= 1
        /\ req[r].validateCalls <= 1
        /\ C15_Progress(req[r])
        /\ req[r].extractCalls = 1 =>
               /\ req[r].convCalls = 1
               /\ req[r].markdown_text.set
               /\ ~C4_Blank(req[r].markdown_text.text)
        /\ req[r].validateCalls = 1 =>
               /\ req[r].extractCalls = 1
               /\ C15_NonEmpty(req[r].structured_data)
        /\ req[r].resp.type = "envelope" =>
               /\ req[r].validateCalls = 1
               /\ Ended(r)

C15_Witness ==
    \E r \in Requests :
        /\ Ended(r)
        /\ req[r].convCalls = 1
        /\ req[r].extractCalls = 1
        /\ req[r].validateCalls = 1
        /\ req[r].resp.type = "envelope"
        /\ req[r].resp.success = TRUE

====
